---- MODULE Spec2Model ----
(***************************************************************************)
(* Model of pygenometracks/tracks/GwasTrack.py: the loader process_gwas    *)
(* and the renderer plot of the GWAS track.                                *)
(*                                                                         *)
(* Floating point values are fixed-point numbers in units of 1/Scale,      *)
(* tagged so that the two IEEE specials the code can produce (NaN for a    *)
(* missing cell or the log of a negative, +inf for -log10(0)) keep their   *)
(* comparison semantics.  The plotting surface ax is the caller's object:  *)
(* it is modelled as the ordered record of the calls made on it.           *)
(***************************************************************************)
EXTENDS Integers, Sequences, FiniteSets, TLC

VARIABLES file, properties, plotted, ax, raised, stdout, loaded, ret

vars == <<file, properties, plotted, ax, raised, stdout, loaded, ret>>

-----------------------------------------------------------------------------
(* Bounds of the model *)

MaxRows == 2

\* rows of a file whose header lacks a required column (they are never read)
MaxRowsBadHeader == 1

-----------------------------------------------------------------------------
(* Numbers *)

Scale == 1000

Num(n) == <<"num", n>>
NaN == <<"nan", 0>>
PosInf == <<"inf", 0>>
None == <<"none", 0>>

IsNum(a) == a[1] = "num"

\* Python's a > b on floats: every comparison with NaN is False.
Gt(a, b) ==
    CASE a[1] = "num" /\ b[1] = "num" -> a[2] > b[2]
      [] a[1] = "inf" /\ b[1] = "num" -> TRUE
      [] OTHER -> FALSE

Lt(a, b) == Gt(b, a)

\* max_y/20
Div20(a) == IF IsNum(a) THEN Num(a[2] \div 20) ELSE a

\* xy[1] + 0.01
PlusOffset(a) == IF IsNum(a) THEN Num(a[2] + Scale \div 100) ELSE a

\* np.ceil
Ceil(a) == IF IsNum(a) THEN Num(((a[2] + Scale - 1) \div Scale) * Scale) ELSE a

\* bool(value) of the y_axis_max_val property: None and 0 are falsy.
Truthy(a) == ~(a = None \/ a = Num(0))

\* log10 of the positive inputs of the model, rounded to 1/Scale.
Log10Table ==
    (10 :> -2000) @@ (500 :> -301) @@ (960 :> -18) @@ (1500 :> 176)

\* lambda v: -np.log10(v).  numpy returns -inf for 0 and nan for a negative
\* (with a RuntimeWarning, no exception).
NegLog10(a) ==
    CASE a[1] = "num" /\ a[2] > 0 -> Num(0 - Log10Table[a[2]])
      [] a[1] = "num" /\ a[2] = 0 -> PosInf
      [] a[1] = "num" /\ a[2] < 0 -> NaN
      [] OTHER -> a

RECURSIVE SeriesMaxFrom(_, _, _)
SeriesMaxFrom(ps, i, best) ==
    IF i > Len(ps) THEN best
    ELSE SeriesMaxFrom(ps, i + 1,
            IF ps[i] = NaN THEN best
            ELSE IF best = NaN \/ Gt(ps[i], best) THEN ps[i] ELSE best)

\* Series.max(): skips NaN; NaN for an empty or all-NaN column.
SeriesMax(ps) == SeriesMaxFrom(ps, 1, NaN)

-----------------------------------------------------------------------------
(* Cells and tables *)

REQUIRED_COLUMNS == <<"CHR", "BP", "SNP", "P">>
OPTIONAL_COLUMNS == {"CS", "INT"}
AllColumns == {REQUIRED_COLUMNS[i] : i \in 1..4} \cup OPTIONAL_COLUMNS

IntCell(n) == <<"int", n>>
\* the string '0' that process_gwas fills an absent CS / INT column with
StrZero == <<"str", 0>>
\* a missing string cell (CHR, SNP) as pandas reads it
Null == "NaN"

Column(rows, c) == [i \in 1..Len(rows) |-> rows[i][c]]

POSSIBLE_FORMATS == {"PP", "-log10", "pval"}

-----------------------------------------------------------------------------
(* process_gwas *)

NoTable == [columns |-> {}, rows |-> <<>>]

RECURSIVE FirstMissingFrom(_, _)
FirstMissingFrom(columns, i) ==
    IF i > Len(REQUIRED_COLUMNS) THEN "none"
    ELSE IF REQUIRED_COLUMNS[i] \notin columns THEN REQUIRED_COLUMNS[i]
    ELSE FirstMissingFrom(columns, i + 1)

\* for column in required_columns: if column not in df.columns: raise
FirstMissing(columns) == FirstMissingFrom(columns, 1)

\* df[c] = '0'
SetColumn(df, c, cell) ==
    [columns |-> df.columns \cup {c},
     rows |-> [i \in 1..Len(df.rows) |->
                  [k \in df.columns \cup {c} |->
                      IF k = c THEN cell ELSE df.rows[i][k]]]]

AddOptionalColumnsNoCS(df) ==
    IF "INT" \notin df.columns THEN SetColumn(df, "INT", StrZero) ELSE df

\* if 'CS' not in df.columns: df['CS'] = '0'; likewise INT
AddOptionalColumns(df) ==
    LET d1 == IF "CS" \notin df.columns THEN SetColumn(df, "CS", StrZero) ELSE df
    IN  IF "INT" \notin d1.columns THEN SetColumn(d1, "INT", StrZero) ELSE d1

\* df['P'] = df['P'].apply(lambda v: -np.log10(v))
TransformP(df) ==
    [columns |-> df.columns,
     rows |-> [i \in 1..Len(df.rows) |->
                  [k \in df.columns |->
                      IF k = "P" THEN NegLog10(df.rows[i][k]) ELSE df.rows[i][k]]]]

\* The value process_gwas returns, or the error it raises.
process_gwas(f, props) ==
    LET missing == FirstMissing(f.columns) IN
    IF missing # "none"
    THEN [err |-> "ValueError", column |-> missing, df |-> NoTable, maxval |-> NaN]
    ELSE LET d1 == AddOptionalColumns(f)
             d2 == IF props.y_values_format = "-log10" THEN TransformP(d1) ELSE d1
         IN  [err |-> "none", column |-> "none", df |-> d2,
              maxval |-> Ceil(SeriesMax(Column(d2.rows, "P")))]

-----------------------------------------------------------------------------
(* plot *)

\* def floor(val), with the max_y its closure sees at the time of the call
floor(val, max_y) ==
    IF Gt(val, Num((95 * Scale) \div 100)) THEN Num((95 * Scale) \div 100)
    ELSE IF Lt(val, Div20(max_y)) THEN Div20(max_y)
    ELSE val

BranchLenient(fmt) ==
    IF fmt \in {"PP", "-log10"} THEN fmt ELSE "pval"

\* the if / elif / elif / else chain on y_values_format
Branch(fmt) ==
    IF fmt \in {"PP", "-log10", "pval"} THEN fmt ELSE "else"

CorrectedMaxNoClamp(max_y) == max_y

\* if max_y > 1: max_y = 1
CorrectedMax(max_y) == IF Gt(max_y, Num(Scale)) THEN Num(Scale) ELSE max_y

CredibleSetAll(df) == df.rows

RECURSIVE CredibleSetFrom(_, _)
CredibleSetFrom(rows, i) ==
    IF i > Len(rows) THEN <<>>
    ELSE (IF rows[i]["CS"] = IntCell(1) THEN <<rows[i]>> ELSE <<>>)
         \o CredibleSetFrom(rows, i + 1)

\* sub = df[df.CS == 1]
CredibleSet(df) == CredibleSetFrom(df.rows, 1)

HighlightYFloored(sub, fmt, max_y) ==
    [i \in 1..Len(sub) |-> floor(sub[i]["P"], max_y)]

\* y = sub['P'].apply(floor).tolist() for PP, else sub['P'].tolist()
HighlightY(sub, fmt, max_y) ==
    IF fmt = "PP" THEN [i \in 1..Len(sub) |-> floor(sub[i]["P"], max_y)]
    ELSE Column(sub, "P")

NamesAll(sub) == [i \in 1..Len(sub) |-> sub[i]["SNP"]]

\* names = sub.apply(lambda row: row['SNP'] if row['INT'] == 1 else '', axis=1).tolist()
Names(sub) ==
    [i \in 1..Len(sub) |-> IF sub[i]["INT"] = IntCell(1) THEN sub[i]["SNP"] ELSE ""]

SetYlim(top) == [op |-> "set_ylim", bottom |-> Num(0), top |-> top]
Scatter(x, y, s, color) == [op |-> "scatter", x |-> x, y |-> y, s |-> s, color |-> color]
Text(x, y, n) == [op |-> "text", x |-> x, y |-> y, s |-> n]

\* for i, n in enumerate(names): ax.text(x[i], y[i] + 0.01, n, ...)
TextCalls(x, y, names) ==
    [i \in 1..Len(names) |-> Text(x[i], PlusOffset(y[i]), names[i])]

Outcome(err, ops, out) == [err |-> err, ops |-> ops, out |-> out]

WARNING == "Y axis cannot be bigger than 1 for Posterior Probabilities!"

\* The calls plot makes on ax, what it prints and the error it ends with.
plot(f, props) ==
    LET pg == process_gwas(f, props) IN
    IF pg.err # "none" THEN Outcome(pg.err, <<>>, <<>>)
    ELSE
    LET df == pg.df
        fmt == props.y_values_format
        br == Branch(fmt)
        max_y0 == IF Truthy(props.y_axis_max_val) THEN props.y_axis_max_val
                  ELSE pg.maxval
        x0 == Column(df.rows, "BP")
    IN
    IF br = "else" THEN Outcome("ValueError", <<>>, <<>>)
    ELSE
    LET y0 == IF br = "PP"
              THEN [i \in 1..Len(df.rows) |-> floor(df.rows[i]["P"], max_y0)]
              ELSE Column(df.rows, "P")
        max_y == IF br = "PP" THEN CorrectedMax(max_y0) ELSE max_y0
        out1 == CASE br = "PP" /\ Gt(max_y0, Num(Scale)) -> <<WARNING>>
                  [] br = "pval" -> <<fmt>>
                  [] OTHER -> <<>>
        ops1 == (IF br = "pval" THEN <<>> ELSE <<SetYlim(max_y)>>)
                \o <<Scatter(x0, y0, "10", "grey")>>
        hasCS == "CS" \in df.columns
        hasINT == "INT" \in df.columns
        sub == CredibleSet(df)
        x == IF hasCS THEN Column(sub, "BP") ELSE x0
        y == IF hasCS THEN HighlightY(sub, fmt, max_y) ELSE y0
    IN
    \* sub is unbound when the CS branch was skipped
    IF hasINT /\ ~hasCS THEN Outcome("NameError", ops1, out1)
    ELSE
    LET ops2 == ops1 \o <<Scatter(x, y, "cs_dotsize", "color")>> IN
    \* names is unbound when the INT branch was skipped
    IF ~hasINT THEN Outcome("NameError", ops2, out1)
    ELSE
    LET names == Names(sub) IN
    Outcome("none", ops2 \o TextCalls(x, y, names), out1 \o <<<<"NAMES: ", names>>>>)

-----------------------------------------------------------------------------
(* Inputs: the .gwas file and the track's properties *)

SNPNames == <<"rs1", "rs2", "rs3", "rs4">>

\* P cells of the input file: missing, negative, zero, 0.01, 0.5, 0.96, 1.5
PCells == {NaN, Num(-100), Num(0), Num(10), Num(500), Num(960), Num(1500)}

\* A row is described by its P, CS and INT cells, and by which one of its
\* other required cells is missing, if any.
RowSpecs ==
    [p : PCells, cs : {0, 1}, int : {0}, null : {"none"}]
    \cup [p : PCells, cs : {1}, int : {1}, null : {"none"}]
    \cup [p : {Num(500)}, cs : {0}, int : {1}, null : {"none"}]
    \cup [p : {Num(500)}, cs : {1}, int : {1}, null : {"CHR", "BP", "SNP"}]

\* Row i of the file: BP = 100 * i and SNP = rs<i>, so rows are told apart.
RowCells(i, spec) ==
    [c \in AllColumns |->
        CASE c = "CHR" -> IF spec.null = "CHR" THEN Null ELSE "chr1"
          [] c = "BP" -> IF spec.null = "BP" THEN NaN ELSE Num(100 * i)
          [] c = "SNP" -> IF spec.null = "SNP" THEN Null ELSE SNPNames[i]
          [] c = "P" -> spec.p
          [] c = "CS" -> IntCell(spec.cs)
          [] c = "INT" -> IntCell(spec.int)]

\* headers with every required column, with or without the optional ones
GoodHeaders == {AllColumns \ drop : drop \in SUBSET OPTIONAL_COLUMNS}

\* headers that lack one required column
BadHeaders == {AllColumns \ {c} : c \in AllColumns \ OPTIONAL_COLUMNS}

\* pd.read_csv(f, sep='\t'): the header's columns and one cell per column and row
ReadCsv(header, specs) ==
    [columns |-> header,
     rows |-> [i \in 1..Len(specs) |-> [c \in header |-> RowCells(i, specs[i])[c]]]]

RowSeqs(n) == UNION {[1..k -> RowSpecs] : k \in 0..n}

\* The files of the model: up to MaxRows rows under a good header, up to
\* MaxRowsBadHeader under a bad one.
IsFile(f) ==
    \E h \in GoodHeaders \cup BadHeaders :
        \E specs \in RowSeqs(IF h \in GoodHeaders THEN MaxRows ELSE MaxRowsBadHeader) :
            f = ReadCsv(h, specs)

Properties ==
    [y_values_format : POSSIBLE_FORMATS \cup {"other"},
     y_axis_max_val : {None, Num(0), Num(Scale), Num(2 * Scale)}]

NoReturn == [err |-> "none", column |-> "none", df |-> NoTable, maxval |-> NaN]

-----------------------------------------------------------------------------
(* The track *)

Init ==
    /\ IsFile(file)
    /\ properties \in Properties
    /\ plotted = FALSE
    /\ ax = <<>>
    /\ raised = "none"
    /\ stdout = <<>>
    /\ loaded = FALSE
    /\ ret = NoReturn

\* GwasTrack.process_gwas(); ret is what the latest call returned
ProcessGwas ==
    /\ loaded' = TRUE
    /\ ret' = process_gwas(file, properties)
    /\ UNCHANGED <<file, properties, plotted, ax, raised, stdout>>

\* GwasTrack.plot(ax, chrom, region_start, region_end) on a fresh ax,
\* its call of process_gwas included
Plot ==
    LET r == plot(file, properties) IN
    /\ loaded' = TRUE
    /\ ret' = process_gwas(file, properties)
    /\ plotted' = TRUE
    /\ ax' = r.ops
    /\ raised' = r.err
    /\ stdout' = r.out
    /\ UNCHANGED <<file, properties>>

Next == ProcessGwas \/ Plot

Spec == Init /\ [][Next]_vars

-----------------------------------------------------------------------------
(* Vocabulary of the properties *)

Required == {"CHR", "BP", "SNP", "P"}
HeaderOk == Required \subseteq file.columns
FormatOk == properties.y_values_format \in {"PP", "-log10", "pval"}
Format == properties.y_values_format
Override == properties.y_axis_max_val
NRows == Len(file.rows)

\* the record of row i is in the credible set / is of interest, per the file
IsCS(i) == "CS" \in file.columns /\ file.rows[i]["CS"] = IntCell(1)
IsINT(i) == "INT" \in file.columns /\ file.rows[i]["INT"] = IntCell(1)
CSRows == {i \in 1..NRows : IsCS(i)}
\* the row of the file that is the j-th credible-set record
CSRow(j) == CHOOSE i \in CSRows : Cardinality({k \in CSRows : k <= i}) = j

OpsOf(kind) == SelectSeq(ax, LAMBDA o : o.op = kind)
Layers == OpsOf("scatter")
Labels == OpsOf("text")
Drawn == plotted /\ raised = "none"

\* the axis maximum before correction exceeds 1
MaxExceedsOne ==
    IF Truthy(Override) THEN Gt(Override, Num(Scale))
    ELSE \E i \in 1..NRows : Gt(file.rows[i]["P"], Num(Scale))

-----------------------------------------------------------------------------
(* C1: a render of a file whose header lacks a required column, or with an *)
(* unrecognized y_values_format, ends in an error, and no call at all has  *)
(* been made on the plotting surface before it.                            *)
C1_FatalBeforeDrawing ==
    (plotted /\ (~HeaderOk \/ ~FormatOk)) => (raised = "ValueError" /\ ax = <<>>)

C1_Witness ==
    /\ plotted /\ HeaderOk /\ ~FormatOk /\ NRows > 0
    /\ raised = "ValueError" /\ ax = <<>>

(* C2: with y_values_format = -log10, process_gwas fails whenever a record *)
(* of the input has P <= 0.                                                *)
C2_LoadFailsOnNonPositiveP ==
    (/\ loaded /\ HeaderOk /\ Format = "-log10"
     /\ \E i \in 1..NRows : IsNum(file.rows[i]["P"]) /\ file.rows[i]["P"][2] <= 0)
    => ret.err # "none"

(* C3: if an input row has a missing (null) CHR, BP, SNP or P, the load   *)
(* fails as a whole and returns no table, whatever the y_values_format.    *)
C3_NullRowFailsLoad ==
    (/\ loaded /\ HeaderOk
     /\ \E i \in 1..NRows :
           \/ file.rows[i]["CHR"] = Null \/ file.rows[i]["SNP"] = Null
           \/ file.rows[i]["BP"] = NaN \/ file.rows[i]["P"] = NaN)
    => ret.err # "none"

\* The axis ceiling of the claims on PP: the override if supplied, else
\* ceil(max P), clamped to at most 1.
EffectiveMax ==
    LET m == IF Truthy(Override) THEN Override
             ELSE Ceil(SeriesMax(Column(file.rows, "P")))
    IN  IF Gt(m, Num(Scale)) THEN Num(Scale) ELSE m

\* v bounded to [EffectiveMax / 20, 0.95]
Bounded(v) ==
    LET lo == EffectiveMax[2] \div 20
        hi == (95 * Scale) \div 100
    IN  Num(IF v[2] > hi THEN hi ELSE IF v[2] < lo THEN lo ELSE v[2])

(* C4: with y_values_format = PP, every value drawn in the base layer and  *)
(* in the highlight layer is the record's P bounded to [max_y / 20, 0.95], *)
(* max_y being the effective axis ceiling (clamped to at most 1).          *)
C4_PPValuesBounded ==
    (Drawn /\ Format = "PP" /\ IsNum(EffectiveMax))
    => /\ \A i \in 1..NRows :
             IsNum(file.rows[i]["P"])
             => Layers[1].y[i] = Bounded(file.rows[i]["P"])
       /\ \A j \in 1..Cardinality(CSRows) :
             IsNum(file.rows[CSRow(j)]["P"])
             => Layers[2].y[j] = Bounded(file.rows[CSRow(j)]["P"])

(* C5: with y_values_format = PP and an axis maximum above 1, the render   *)
(* does not fail, a warning is printed, the y-axis upper limit is set to 1 *)
(* and both scatter layers are drawn.                                      *)
C5_PPMaxCorrectedToOne ==
    (plotted /\ HeaderOk /\ Format = "PP" /\ MaxExceedsOne)
    => /\ raised = "none"
       /\ \E k \in 1..Len(stdout) : stdout[k] = WARNING
       /\ Len(OpsOf("set_ylim")) = 1
       /\ ax[1] = [op |-> "set_ylim", bottom |-> Num(0), top |-> Num(Scale)]
       /\ Len(Layers) = 2

C5_Witness ==
    /\ plotted /\ Format = "PP" /\ Override = None /\ raised = "none"
    /\ \E i \in 1..NRows : file.rows[i]["P"] = Num(1500)
    /\ ax[1].op = "set_ylim" /\ ax[1].top = Num(Scale)

\* the P column process_gwas returns for the file
LoadedP == Column(process_gwas(file, properties).df.rows, "P")

(* C6: with y_values_format = pval or -log10, every record is drawn at its *)
(* loaded P, unclamped, in the base layer and, if CS = 1, in the highlight *)
(* layer: the raw P for pval, -log10(P) for -log10.                        *)
C6_NoClampOutsidePP ==
    (Drawn /\ Format \in {"pval", "-log10"})
    => /\ Len(Layers[1].y) = NRows
       /\ Len(Layers[2].y) = Cardinality(CSRows)
       /\ \A i \in 1..NRows :
             /\ Layers[1].y[i] = LoadedP[i]
             /\ Format = "pval" => Layers[1].y[i] = file.rows[i]["P"]
             /\ (Format = "-log10" /\ file.rows[i]["P"] = Num(10))
                => Layers[1].y[i] = Num(2 * Scale)
       /\ \A j \in 1..Cardinality(CSRows) :
             /\ Layers[2].y[j] = LoadedP[CSRow(j)]
             /\ Format = "pval" => Layers[2].y[j] = file.rows[CSRow(j)]["P"]

C6_Witness ==
    /\ Drawn /\ Format = "pval" /\ Override = Num(Scale)
    /\ \E i \in 1..NRows :
          /\ IsCS(i) /\ file.rows[i]["P"] = Num(1500)
          /\ Layers[1].y[i] = Num(1500)
    /\ \E j \in 1..Len(Layers[2].y) : Layers[2].y[j] = Num(1500)

(* C7: for a loaded table, a render draws exactly two scatter layers: first *)
(* the base layer with one point per record, then the highlight layer with *)
(* exactly the records with CS = 1, in table order, at x = BP.             *)
C7_TwoLayers ==
    (plotted /\ HeaderOk /\ FormatOk)
    => /\ raised = "none"
       /\ Len(Layers) = 2
       /\ Layers[1].color = "grey" /\ Layers[2].color = "color"
       /\ Layers[1].x = Column(file.rows, "BP")
       /\ Len(Layers[1].y) = NRows
       /\ Len(Layers[2].x) = Cardinality(CSRows)
       /\ Len(Layers[2].y) = Cardinality(CSRows)
       /\ \A j \in 1..Cardinality(CSRows) :
             Layers[2].x[j] = file.rows[CSRow(j)]["BP"]

C7_Witness ==
    /\ Drawn /\ NRows = 2 /\ ~IsCS(1) /\ IsCS(2)
    /\ Len(Layers) = 2 /\ Len(Layers[1].x) = 2
    /\ Layers[2].x = <<Num(200)>>

(* C8 as stated: the number of text labels emitted equals the number of    *)
(* records with CS = 1 and INT = 1.                                        *)
C8_LabelsOnlyForINT ==
    Drawn => Len(Labels) = Cardinality({i \in CSRows : IsINT(i)})

(* C8 as amended: one text call per highlighted record, in table order, at *)
(* (BP, highlight-layer y + 0.01); its text is the SNP when INT = 1 and    *)
(* the empty string otherwise.                                             *)
C8_OneTextPerHighlight ==
    Drawn
    => /\ Len(Labels) = Cardinality(CSRows)
       /\ \A j \in 1..Cardinality(CSRows) :
             /\ Labels[j].x = file.rows[CSRow(j)]["BP"]
             /\ Labels[j].y = PlusOffset(Layers[2].y[j])
             /\ Labels[j].s = IF IsINT(CSRow(j)) THEN file.rows[CSRow(j)]["SNP"]
                              ELSE ""
       /\ Cardinality({j \in 1..Len(Labels) : Labels[j].s # ""})
             = Cardinality({i \in CSRows : IsINT(i)})

C8_Witness ==
    /\ Drawn /\ NRows = 2 /\ IsCS(1) /\ IsCS(2) /\ ~IsINT(1) /\ IsINT(2)
    /\ file.rows[2]["P"] = Num(500)
    /\ Len(Labels) = 2 /\ Labels[1].s = "" /\ Labels[2].s = "rs2"
    /\ Labels[2].y = Num(510)

(* C9: a file without CS column loads with CS = 0 in every record (same    *)
(* for INT), and its render, like that of a file in which no record has    *)
(* CS = 1, completes without error: all records in the base layer, an      *)
(* empty highlight layer and no label.                                     *)
C9_NoCredibleSet ==
    /\ (loaded /\ HeaderOk)
       => /\ ret.err = "none"
          /\ {"CS", "INT"} \subseteq ret.df.columns
          /\ Len(ret.df.rows) = NRows
          /\ \A i \in 1..Len(ret.df.rows) :
                /\ "CS" \notin file.columns => ret.df.rows[i]["CS"] = StrZero
                /\ "INT" \notin file.columns => ret.df.rows[i]["INT"] = StrZero
    /\ (plotted /\ HeaderOk /\ FormatOk /\ CSRows = {})
       => /\ raised = "none"
          /\ Len(Layers) = 2
          /\ Len(Layers[1].x) = NRows
          /\ Layers[2].x = <<>> /\ Layers[2].y = <<>>
          /\ Labels = <<>>

C9_Witness ==
    /\ plotted /\ loaded /\ "CS" \notin file.columns /\ "INT" \in file.columns
    /\ NRows = 2 /\ IsINT(1)
    /\ raised = "none" /\ Len(Layers) = 2 /\ Layers[2].x = <<>>
    /\ ret.df.rows[1]["CS"] = StrZero

(* C10: with y_values_format = PP, every record with CS = 1 is drawn at    *)
(* the same y in the highlight layer as in the base layer.                 *)
C10_SameYInBothLayers ==
    (Drawn /\ Format = "PP")
    => \A j \in 1..Cardinality(CSRows) : Layers[2].y[j] = Layers[1].y[CSRow(j)]

====
